---- MODULE Spec2Model ----
(***************************************************************************)
(* Model of the ipynbsrv/coco contract package: the StorageBackend         *)
(* constructor, the default ContainerBackend.restart_container, the        *)
(* UserBackend stubs, the DTOs of dtos.py with their validity checks and   *)
(* the exception class hierarchy of errors.py, services.py and dtos.py.    *)
(*                                                                         *)
(* The state is the filesystem the constructor looks at (fs), the object   *)
(* the program last constructed (obj), the argument its constructor was    *)
(* given (ctor) and the record of the last call (last): its operation,     *)
(* argument, outcome (return value or raised exception class) and the      *)
(* calls it made in turn.                                                  *)
(***************************************************************************)
EXTENDS Integers, Sequences, FiniteSets, TLC

VARIABLES fs, obj, ctor, last

vars == <<fs, obj, ctor, last>>

----------------------------------------------------------------------------
(* Bounds of the model.                                                    *)

\* number of distinct paths a base_dir is drawn from
MaxPath == 2
\* number of distinct non-empty strings a mapping value is drawn from
MaxStr == 1
\* integers 0..MaxInt are the integer mapping values
MaxInt == 0
\* number of distinct containers restart_container is called on
MaxContainer == 2
\* number of distinct users user_exists is called on
MaxUser == 2

----------------------------------------------------------------------------
(* Python values.  Every value is a record tagged with its type in t.      *)

None == [t |-> "None"]
PyStr(s) == [t |-> "str", s |-> s]
PyInt(n) == [t |-> "int", n |-> n]
PyList(len) == [t |-> "list", len |-> len]
PyBool(b) == [t |-> "bool", b |-> b]
\* marker of a key that the input dict does not hold (not a Python value)
Missing == [t |-> "<missing>"]

StrName(i) == "s" \o ToString(i)
Strs == {""} \cup {StrName(i) : i \in 1..MaxStr}
Ints == 0..MaxInt

\* the scalar values a dict may map a key to
Vals == {None} \cup {PyStr(s) : s \in Strs} \cup {PyInt(n) : n \in Ints}
\* a key of the input dict: not held, or mapped to a scalar
ValsM == Vals \cup {Missing}
\* the optional fields env, ports, volumes: not held or a one-element list
OptM == {Missing, PyList(1)}
\* a key no DTO declares
ExtraM == {Missing, PyInt(0)}

\* Python truth value, as `not x` takes it: None, "", 0 and empty containers
\* are false; an object without __bool__ and __len__ is true.
Truthy(v) ==
    CASE v.t = "None" -> FALSE
      [] v.t = "str" -> v.s # ""
      [] v.t = "int" -> v.n # 0
      [] v.t = "list" -> v.len # 0
      [] v.t = "bool" -> v.b
      [] OTHER -> TRUE

\* `x is not None`
IsNotNone(v) == v.t # "None"

\* a get that gives the empty string for a key the dict does not hold
GetEmptyDefault(values, key) ==
    IF values[key].t = "<missing>" THEN PyStr("") ELSE values[key]

\* dict.get(key): the value, or None when the dict does not hold the key
Get(values, key) ==
    IF values[key].t = "<missing>" THEN None ELSE values[key]

----------------------------------------------------------------------------
(* Outcome of a call: it returns a value or raises an exception class.     *)

Return(v) == [kind |-> "return", val |-> v, exc |-> "-", msg |-> ""]
RaiseMsg(e, m) == [kind |-> "raise", val |-> None, exc |-> e, msg |-> m]
Raise(e) == RaiseMsg(e, "")

\* no object constructed yet, no call made yet
NoObject == [t |-> "-"]
NoCall == [op |-> "-", arg |-> None, out |-> Return(None), calls |-> <<>>]

----------------------------------------------------------------------------
(* The exception classes: each class statement's list of bases.            *)

\* errors.py
ErrorsClasses ==
    {"BackendError", "ConnectionError", "NotFoundError",
     "ContainerBackendError", "ContainerNotFoundError",
     "IllegalContainerSpecificationError", "IllegalContainerStateError",
     "ContainerImageNotFoundError", "ContainerSnapshotNotFoundError",
     "GroupBackendError", "GroupNotFoundError", "StorageBackendError",
     "DirectoryNotFoundError", "UserBackendError", "ReadOnlyError",
     "UserNotFoundError", "ServiceError", "EncryptionServiceError",
     "IntegrityServiceError", "IntegrityValidationError"}

\* services.py defines classes of the same names as errors.py does; they are
\* other classes, written here with the module's name in front
ServicesClasses ==
    {"services.ServiceError", "services.EncryptionServiceError",
     "services.IntegrityServiceError", "services.IntegrityValidationError"}

\* dtos.py
DtosClasses == {"ValidationError", "MissingFieldError"}

\* the built-in classes the package derives from or raises
BuiltinClasses ==
    {"BaseException", "Exception", "RuntimeError", "NotImplementedError",
     "TypeError"}

PackageErrors == ErrorsClasses \cup ServicesClasses \cup DtosClasses
Classes == PackageErrors \cup BuiltinClasses

\* a hierarchy in which the not-found errors lost their resource kind's base
ErrorsBasesNoKind(c) ==
    CASE c \in {"BackendError", "ServiceError"} -> <<"Exception">>
      [] c \in {"ConnectionError", "NotFoundError", "ContainerBackendError",
                "GroupBackendError", "StorageBackendError",
                "UserBackendError"} -> <<"BackendError">>
      [] c \in {"ContainerNotFoundError", "ContainerImageNotFoundError",
                "GroupNotFoundError", "DirectoryNotFoundError",
                "UserNotFoundError"} -> <<"NotFoundError">>
      [] c \in {"IllegalContainerSpecificationError",
                "IllegalContainerStateError",
                "ContainerSnapshotNotFoundError"} -> <<"ContainerBackendError">>
      [] c = "ReadOnlyError" -> <<"UserBackendError">>
      [] c \in {"EncryptionServiceError", "IntegrityServiceError"}
            -> <<"ServiceError">>
      [] c = "IntegrityValidationError" -> <<"IntegrityServiceError">>

\* a hierarchy in which IntegrityValidationError derives from Exception
ErrorsBasesLooseIntegrity(c) ==
    CASE c \in {"BackendError", "ServiceError", "IntegrityValidationError"}
            -> <<"Exception">>
      [] c \in {"ConnectionError", "NotFoundError", "ContainerBackendError",
                "GroupBackendError", "StorageBackendError",
                "UserBackendError"} -> <<"BackendError">>
      [] c \in {"ContainerNotFoundError", "ContainerImageNotFoundError"}
            -> <<"NotFoundError", "ContainerBackendError">>
      [] c \in {"IllegalContainerSpecificationError",
                "IllegalContainerStateError",
                "ContainerSnapshotNotFoundError"} -> <<"ContainerBackendError">>
      [] c = "GroupNotFoundError" -> <<"NotFoundError", "GroupBackendError">>
      [] c = "DirectoryNotFoundError"
            -> <<"NotFoundError", "StorageBackendError">>
      [] c = "ReadOnlyError" -> <<"UserBackendError">>
      [] c = "UserNotFoundError" -> <<"NotFoundError", "UserBackendError">>
      [] c \in {"EncryptionServiceError", "IntegrityServiceError"}
            -> <<"ServiceError">>

\* errors.py: class C(B1, B2) gives ErrorsBases("C") = <<"B1", "B2">>
ErrorsBases(c) ==
    CASE c \in {"BackendError", "ServiceError"} -> <<"Exception">>
      [] c \in {"ConnectionError", "NotFoundError", "ContainerBackendError",
                "GroupBackendError", "StorageBackendError",
                "UserBackendError"} -> <<"BackendError">>
      [] c \in {"ContainerNotFoundError", "ContainerImageNotFoundError"}
            -> <<"NotFoundError", "ContainerBackendError">>
      [] c \in {"IllegalContainerSpecificationError",
                "IllegalContainerStateError",
                "ContainerSnapshotNotFoundError"} -> <<"ContainerBackendError">>
      [] c = "GroupNotFoundError" -> <<"NotFoundError", "GroupBackendError">>
      [] c = "DirectoryNotFoundError"
            -> <<"NotFoundError", "StorageBackendError">>
      [] c = "ReadOnlyError" -> <<"UserBackendError">>
      [] c = "UserNotFoundError" -> <<"NotFoundError", "UserBackendError">>
      [] c \in {"EncryptionServiceError", "IntegrityServiceError"}
            -> <<"ServiceError">>
      [] c = "IntegrityValidationError" -> <<"IntegrityServiceError">>

\* services.py
ServicesBases(c) ==
    CASE c = "services.ServiceError" -> <<"Exception">>
      [] c \in {"services.EncryptionServiceError",
                "services.IntegrityServiceError"} -> <<"services.ServiceError">>
      [] c = "services.IntegrityValidationError"
            -> <<"services.IntegrityServiceError">>

\* dtos.py
DtosBases(c) ==
    CASE c = "ValidationError" -> <<"Exception">>
      [] c = "MissingFieldError" -> <<"ValidationError">>

\* the built-in exceptions (BaseException derives from object)
BuiltinBases(c) ==
    CASE c = "BaseException" -> <<>>
      [] c = "Exception" -> <<"BaseException">>
      [] c \in {"RuntimeError", "TypeError"} -> <<"Exception">>
      [] c = "NotImplementedError" -> <<"RuntimeError">>

Bases(c) ==
    CASE c \in ErrorsClasses -> ErrorsBases(c)
      [] c \in ServicesClasses -> ServicesBases(c)
      [] c \in DtosClasses -> DtosBases(c)
      [] c \in BuiltinClasses -> BuiltinBases(c)

\* issubclass(c, d): d is c or is reached from c through the base lists
RECURSIVE IsSubclass(_, _)
IsSubclass(c, d) ==
    \/ c = d
    \/ \E i \in 1..Len(Bases(c)) : IsSubclass(Bases(c)[i], d)

\* `except handler:` with handler a tuple of classes (here a set) catches an
\* instance of class c when c is a subclass of one of them
Catches(handler, c) == \E h \in handler : IsSubclass(c, h)

----------------------------------------------------------------------------
(* backends.py: StorageBackend.                                            *)

PathName(i) == "/srv/dir" \o ToString(i)
Paths == {PathName(i) : i \in 1..MaxPath}

\* an attribute the object does not have
Unset == "<unset>"

\* os.path.exists(path) on the filesystem fsys
PathExists(fsys, path) == path \in fsys

\* a constructor that assigns before it checks
StorageBackend_init_AssignFirst(fsys, base_dir) ==
    IF ~PathExists(fsys, base_dir)
    THEN [self |-> [t |-> "StorageBackend", base_dir |-> base_dir],
          out |-> RaiseMsg("DirectoryNotFoundError", "Base directory does not exist."), calls |-> <<>>]
    ELSE [self |-> [t |-> "StorageBackend", base_dir |-> base_dir],
          out |-> Return(None), calls |-> <<>>]

\* a constructor that records some existing directory, not the one passed
StorageBackend_init_OtherDir(fsys, base_dir) ==
    IF ~PathExists(fsys, base_dir)
    THEN [self |-> [t |-> "StorageBackend", base_dir |-> Unset],
          out |-> RaiseMsg("DirectoryNotFoundError", "Base directory does not exist."), calls |-> <<>>]
    ELSE [self |-> [t |-> "StorageBackend",
                    base_dir |-> CHOOSE p \in fsys :
                                     \A q \in fsys : p = q \/ p # base_dir],
          out |-> Return(None), calls |-> <<>>]

\* StorageBackend.__init__(self, base_dir): self starts without attributes
StorageBackend_init(fsys, base_dir) ==
    IF ~PathExists(fsys, base_dir)
    THEN [self |-> [t |-> "StorageBackend", base_dir |-> Unset],
          out |-> RaiseMsg("DirectoryNotFoundError", "Base directory does not exist."), calls |-> <<>>]
    ELSE [self |-> [t |-> "StorageBackend", base_dir |-> base_dir],
          out |-> Return(None), calls |-> <<>>]

----------------------------------------------------------------------------
(* backends.py: ContainerBackend.  A backend object is the base class or a *)
(* subclass of it that overrides stop_container and start_container; the   *)
(* fields stop and start say what each of the two does when called:        *)
(* "NotImplementedError" is the base class's stub, "ok" an override that   *)
(* returns, any other class name an override that raises that class.       *)

Containers == 1..MaxContainer

MethodImpls ==
    {"NotImplementedError", "ok", "ContainerNotFoundError",
     "IllegalContainerStateError"}

Call(op, arg) == [op |-> op, arg |-> arg]

\* what calling a method does, given what the object's class makes of it
Invoke(impl) == IF impl = "ok" THEN Return(None) ELSE Raise(impl)

ContainerBackend_stop_container(self, container) == Invoke(self.stop)

ContainerBackend_start_container(self, container) == Invoke(self.start)

\* a restart that starts before it stops
ContainerBackend_restart_container_StartFirst(self, container) ==
    LET started == ContainerBackend_start_container(self, container)
        stopped == ContainerBackend_stop_container(self, container)
    IN  IF started.kind = "raise"
        THEN [out |-> started,
              calls |-> <<Call("start_container", container)>>]
        ELSE [out |-> stopped,
              calls |-> <<Call("start_container", container),
                          Call("stop_container", container)>>]

\* a restart that goes on to start the container after stop raised
ContainerBackend_restart_container_Swallow(self, container) ==
    LET stopped == ContainerBackend_stop_container(self, container)
        started == ContainerBackend_start_container(self, container)
    IN  [out |-> IF stopped.kind = "raise" THEN stopped ELSE started,
         calls |-> <<Call("stop_container", container),
                     Call("start_container", container)>>]

\* ContainerBackend.restart_container(self, container, **kwargs)
ContainerBackend_restart_container(self, container) ==
    LET stopped == ContainerBackend_stop_container(self, container)
        started == ContainerBackend_start_container(self, container)
    IN  IF stopped.kind = "raise"
        THEN [out |-> stopped,
              calls |-> <<Call("stop_container", container)>>]
        ELSE [out |-> started,
              calls |-> <<Call("stop_container", container),
                          Call("start_container", container)>>]

----------------------------------------------------------------------------
(* backends.py: UserBackend.  The field get_user says what the object's    *)
(* class makes of get_user: "NotImplementedError" is the base class's      *)
(* stub, "lookup" an override that returns the user when the backend       *)
(* stores it (the field users) and raises UserNotFoundError when not,      *)
(* "ConnectionError" an override whose backend cannot be reached.          *)

Users == 1..MaxUser

GetUserImpls == {"NotImplementedError", "lookup", "ConnectionError"}

UserBackend_get_user(self, user) ==
    IF self.get_user = "lookup"
    THEN IF user \in self.users
         THEN Return(PyInt(user))
         ELSE Raise("UserNotFoundError")
    ELSE Raise(self.get_user)

\* user_exists in terms of get_user, catching UserNotFoundError
UserBackend_user_exists_ViaGetUser(self, user) ==
    LET got == UserBackend_get_user(self, user)
    IN  [out |-> IF got.kind = "return" THEN Return(PyBool(TRUE))
                 ELSE IF Catches({"UserNotFoundError"}, got.exc)
                      THEN Return(PyBool(FALSE))
                      ELSE got,
         calls |-> <<Call("get_user", user)>>]

\* UserBackend.user_exists(self, user)
UserBackend_user_exists(self, user) ==
    [out |-> Raise("NotImplementedError"), calls |-> <<>>]

----------------------------------------------------------------------------
(* backends.py: the methods the backend classes declare, and calls of them *)
(* with their documented arguments and, possibly, one more keyword         *)
(* argument.                                                               *)

ContainerBackendClasses ==
    {"ContainerBackend", "SnapshotableContainerBackend",
     "SuspendableContainerBackend"}

BackendClasses ==
    ContainerBackendClasses \cup {"GroupBackend", "StorageBackend",
                                  "UserBackend"}

\* the def statements of each class body (StorageBackend.__init__ is the
\* constructor, modelled by StorageBackend_init)
Declared(cls) ==
    CASE cls = "ContainerBackend" ->
            {"container_exists", "container_image_exists",
             "container_is_running", "create_container",
             "create_container_image", "delete_container",
             "delete_container_image", "exec_in_container", "get_container",
             "get_container_image", "get_container_images",
             "get_container_logs", "get_containers", "get_status",
             "restart_container", "start_container", "stop_container"}
      [] cls = "SnapshotableContainerBackend" ->
            {"container_snapshot_exists", "create_container_snapshot",
             "delete_container_snapshot", "get_container_snapshot",
             "get_container_snapshots", "get_containers_snapshots",
             "restore_container_snapshot"}
      [] cls = "SuspendableContainerBackend" ->
            {"container_is_suspended", "resume_container",
             "suspend_container"}
      [] cls = "GroupBackend" ->
            {"add_group_member", "connect", "create_group", "delete_group",
             "disconnect", "get_group", "get_group_members", "get_groups",
             "group_exists", "is_group_member", "remove_group_member",
             "remove_user_from_all_groups"}
      [] cls = "StorageBackend" ->
            {"dir_exists", "get_dir_gid", "get_dir_group", "get_dir_mode",
             "get_dir_owner", "get_dir_uid", "get_full_dir_path", "mk_dir",
             "rm_dir", "set_dir_gid", "set_dir_group", "set_dir_mode",
             "set_dir_owner", "set_dir_uid"}
      [] cls = "UserBackend" ->
            {"auth_user", "connect", "create_user", "delete_user",
             "disconnect", "get_user", "get_users", "set_user_password",
             "user_exists"}

\* the methods an instance of cls has: the extensions inherit
\* ContainerBackend's
Methods(cls) ==
    IF cls \in {"SnapshotableContainerBackend", "SuspendableContainerBackend"}
    THEN Declared(cls) \cup Declared("ContainerBackend")
    ELSE Declared(cls)

AllMethods == UNION {Methods(cls) : cls \in BackendClasses}

\* the first documented argument of a call: a container, a user, or
\* whatever else the method names first
FirstArgs == Containers \cup Users

\* whether the def statement of the method ends in **kwargs: all do but
\* ContainerBackend.container_image_exists, get_status, start_container and
\* UserBackend.user_exists
AcceptsKwargs(cls, method) ==
    ~ \/ /\ cls \in ContainerBackendClasses
         /\ method \in {"container_image_exists", "get_status",
                        "start_container"}
      \/ /\ cls = "UserBackend"
         /\ method = "user_exists"

\* the body of the method, run on self with first argument a: restart, stop,
\* start, get_user and user_exists as modelled above, every other body is
\* `raise NotImplementedError`
MethodBody(self, method, a) ==
    CASE self.t \in ContainerBackendClasses /\ method = "restart_container"
            -> ContainerBackend_restart_container(self, a)
      [] self.t \in ContainerBackendClasses /\ method = "stop_container"
            -> [out |-> ContainerBackend_stop_container(self, a),
                calls |-> <<>>]
      [] self.t \in ContainerBackendClasses /\ method = "start_container"
            -> [out |-> ContainerBackend_start_container(self, a),
                calls |-> <<>>]
      [] self.t = "UserBackend" /\ method = "get_user"
            -> [out |-> UserBackend_get_user(self, a), calls |-> <<>>]
      [] self.t = "UserBackend" /\ method = "user_exists"
            -> UserBackend_user_exists(self, a)
      [] OTHER -> [out |-> Raise("NotImplementedError"), calls |-> <<>>]

\* self.method(<documented arguments>) or, with kwargs, the same call with
\* one more keyword argument: a signature without **kwargs rejects the
\* keyword with TypeError before the body runs (an override is taken to keep
\* the signature of the method it overrides)
CallMethod(self, method, a, kwargs) ==
    IF kwargs /\ ~AcceptsKwargs(self.t, method)
    THEN [out |-> Raise("TypeError"), calls |-> <<>>]
    ELSE MethodBody(self, method, a)

----------------------------------------------------------------------------
(* dtos.py.  A DTO object is a record of its class (t) and its fields.     *)

\* the input dicts: one entry per key, Missing when the dict lacks the key.
\* ContainerImageDTO reads name and tag; id is a key it does not read.
ImageMappings == [name : ValsM, tag : ValsM, id : ExtraM]

\* ContainerImageDTO.__init__(self, values)
ContainerImageDTO_init(values) ==
    [t |-> "ContainerImageDTO",
     name |-> Get(values, "name"),
     tag |-> Get(values, "tag")]

\* ContainerImageDTO.get_full_identifier: "%s:%s" % (name, tag)
Format(v) ==
    CASE v.t = "None" -> "None"
      [] v.t = "str" -> v.s
      [] v.t = "int" -> ToString(v.n)

ContainerImageDTO_get_full_identifier(self) ==
    Return(PyStr(Format(self.name) \o ":" \o Format(self.tag)))

\* ContainerImageDTO.is_valid
ContainerImageDTO_is_valid(self) ==
    Return(PyBool(IsNotNone(self.name) /\ IsNotNone(self.tag)))

\* ContainerImageDTO.validate
ContainerImageDTO_validate(self) ==
    IF ~Truthy(self.name)
    THEN RaiseMsg("MissingFieldError", "Container image name not set")
    ELSE IF ~Truthy(self.tag)
         THEN RaiseMsg("MissingFieldError", "Container image tag name not set")
         ELSE Return(None)

\* ContainerDTO reads id; name is a key it does not read
ContainerMappings == [id : ValsM, name : ExtraM]

\* ContainerDTO.__init__(self, values)
ContainerDTO_init(values) ==
    [t |-> "ContainerDTO", id |-> Get(values, "id")]

\* ContainerDTO.is_valid
ContainerDTO_is_valid(self) == Return(PyBool(IsNotNone(self.id)))

\* ContainerDTO.validate
ContainerDTO_validate(self) ==
    IF ~Truthy(self.id)
    THEN RaiseMsg("MissingFieldError", "Container ID not set")
    ELSE Return(None)

\* what the key image of a CreatableContainerDTO's dict may hold: nothing, a
\* scalar, or a ContainerImageDTO
ImageArgs == ValsM \cup {ContainerImageDTO_init(m) : m \in ImageMappings}

\* CreatableContainerDTO reads six keys; id is a key it does not read
CreatableMappings ==
    [command : ValsM, env : OptM, image : ImageArgs, name : ValsM,
     ports : OptM, volumes : OptM, id : ExtraM]

\* CreatableContainerDTO.__init__(self, values)
CreatableContainerDTO_init(values) ==
    [t |-> "CreatableContainerDTO",
     command |-> Get(values, "command"),
     env |-> Get(values, "env"),
     image |-> Get(values, "image"),
     name |-> Get(values, "name"),
     ports |-> Get(values, "ports"),
     volumes |-> Get(values, "volumes")]

\* isinstance(v, ContainerImageDTO)
IsContainerImageDTO(v) == v.t = "ContainerImageDTO"

\* an is_valid that does not look at the command
CreatableContainerDTO_is_valid_NoCommand(self) ==
    IF ~IsNotNone(self.image) \/ ~IsContainerImageDTO(self.image)
    THEN [out |-> Return(PyBool(FALSE)), calls |-> <<>>]
    ELSE [out |-> Return(PyBool(
                     ContainerImageDTO_is_valid(self.image).val.b
                     /\ IsNotNone(self.name))),
          calls |-> <<Call("image.is_valid", None)>>]

\* CreatableContainerDTO.is_valid: the `and` chain stops at its first false
\* operand, so the image's is_valid is called only when the chain gets there
CreatableContainerDTO_is_valid(self) ==
    IF ~IsNotNone(self.command) \/ ~IsNotNone(self.image)
       \/ ~IsContainerImageDTO(self.image)
    THEN [out |-> Return(PyBool(FALSE)), calls |-> <<>>]
    ELSE [out |-> Return(PyBool(
                     ContainerImageDTO_is_valid(self.image).val.b
                     /\ IsNotNone(self.name))),
          calls |-> <<Call("image.is_valid", None)>>]

\* CreatableContainerDTO.validate
CreatableContainerDTO_validate(self) ==
    IF ~Truthy(self.image)
    THEN [out |-> RaiseMsg("MissingFieldError", "Container image not set"),
          calls |-> <<>>]
    ELSE IF ~IsContainerImageDTO(self.image)
    THEN [out |-> RaiseMsg("ValidationError", "Container image not valid"),
          calls |-> <<>>]
    ELSE IF ContainerImageDTO_validate(self.image).kind = "raise"
    THEN [out |-> ContainerImageDTO_validate(self.image),
          calls |-> <<Call("image.validate", None)>>]
    ELSE IF ~Truthy(self.name)
    THEN [out |-> RaiseMsg("MissingFieldError", "Container name not set"),
          calls |-> <<Call("image.validate", None)>>]
    ELSE [out |-> Return(None),
          calls |-> <<Call("image.validate", None)>>]

DTOClasses ==
    {"DTO", "ContainerImageDTO", "ContainerDTO", "CreatableContainerDTO"}

\* a check that clears a name it finds empty
DTO_self_after_ClearsEmptyName(self) ==
    IF self.t \in {"ContainerImageDTO", "CreatableContainerDTO"}
       /\ ~Truthy(self.name)
    THEN [self EXCEPT !.name = None]
    ELSE self

\* self after is_valid(), validate() or get_full_identifier(): none of the
\* bodies assigns to an attribute of self or of self.image
DTO_self_after(self) == self

\* self.is_valid(), by the class of self; the base class DTO has the stub
DTO_is_valid(self) ==
    CASE self.t = "ContainerImageDTO"
            -> [out |-> ContainerImageDTO_is_valid(self), calls |-> <<>>]
      [] self.t = "ContainerDTO"
            -> [out |-> ContainerDTO_is_valid(self), calls |-> <<>>]
      [] self.t = "CreatableContainerDTO"
            -> CreatableContainerDTO_is_valid(self)
      [] self.t = "DTO"
            -> [out |-> Raise("NotImplementedError"), calls |-> <<>>]

\* self.validate(), by the class of self; the base class DTO has the stub
DTO_validate(self) ==
    CASE self.t = "ContainerImageDTO"
            -> [out |-> ContainerImageDTO_validate(self), calls |-> <<>>]
      [] self.t = "ContainerDTO"
            -> [out |-> ContainerDTO_validate(self), calls |-> <<>>]
      [] self.t = "CreatableContainerDTO"
            -> CreatableContainerDTO_validate(self)
      [] self.t = "DTO"
            -> [out |-> Raise("NotImplementedError"), calls |-> <<>>]

----------------------------------------------------------------------------
(* The operations.                                                         *)

Done(op, arg, r) == [op |-> op, arg |-> arg, out |-> r.out, calls |-> r.calls]

\* A behaviour follows one object: it is constructed once, from the state
\* without an object, and the operations of its class are then called on it
\* in any order and any number of times.
NoObjectYet == obj.t = "-"

Init ==
    /\ fs \in SUBSET Paths
    /\ obj = NoObject
    /\ ctor = None
    /\ last = NoCall

\* StorageBackend(base_dir).  When __init__ raises, obj is the object as
\* __init__ left it.
NewStorageBackend ==
    /\ NoObjectYet
    /\ \E base_dir \in Paths :
          LET r == StorageBackend_init(fs, base_dir)
          IN  /\ obj' = r.self
              /\ ctor' = base_dir
              /\ last' = Done("StorageBackend", base_dir, r)
    /\ UNCHANGED fs

\* an instance of ContainerBackend or of one of its two extensions, or of a
\* subclass of theirs overriding stop/start
NewContainerBackend ==
    /\ NoObjectYet
    /\ \E cls \in ContainerBackendClasses,
          stop \in MethodImpls, start \in MethodImpls :
          /\ obj' = [t |-> cls, stop |-> stop, start |-> start]
          /\ last' = Done(cls, None, [out |-> Return(None), calls |-> <<>>])
    /\ ctor' = None
    /\ UNCHANGED fs

restart_container(container) ==
    /\ obj.t \in ContainerBackendClasses
    /\ last' = Done("restart_container", container,
                    ContainerBackend_restart_container(obj, container))
    /\ UNCHANGED <<fs, obj, ctor>>

stop_container(container) ==
    /\ obj.t \in ContainerBackendClasses
    /\ last' = Done("stop_container", container,
                    [out |-> ContainerBackend_stop_container(obj, container),
                     calls |-> <<>>])
    /\ UNCHANGED <<fs, obj, ctor>>

start_container(container) ==
    /\ obj.t \in ContainerBackendClasses
    /\ last' = Done("start_container", container,
                    [out |-> ContainerBackend_start_container(obj, container),
                     calls |-> <<>>])
    /\ UNCHANGED <<fs, obj, ctor>>

\* an instance of UserBackend or of a subclass overriding get_user
NewUserBackend ==
    /\ NoObjectYet
    /\ \E impl \in GetUserImpls, users \in SUBSET Users :
          obj' = [t |-> "UserBackend", get_user |-> impl, users |-> users]
    /\ ctor' = None
    /\ last' = Done("UserBackend", None,
                    [out |-> Return(None), calls |-> <<>>])
    /\ UNCHANGED fs

get_user(user) ==
    /\ obj.t = "UserBackend"
    /\ last' = Done("get_user", user,
                    [out |-> UserBackend_get_user(obj, user), calls |-> <<>>])
    /\ UNCHANGED <<fs, obj, ctor>>

user_exists(user) ==
    /\ obj.t = "UserBackend"
    /\ last' = Done("user_exists", user, UserBackend_user_exists(obj, user))
    /\ UNCHANGED <<fs, obj, ctor>>

NewGroupBackend ==
    /\ NoObjectYet
    /\ obj' = [t |-> "GroupBackend"]
    /\ ctor' = None
    /\ last' = Done("GroupBackend", None,
                    [out |-> Return(None), calls |-> <<>>])
    /\ UNCHANGED fs

\* the backend objects there are: a StorageBackend whose __init__ raised was
\* never bound to a name
IsBackend(self) ==
    /\ self.t \in BackendClasses
    /\ self.t = "StorageBackend" => self.base_dir # Unset

\* obj.method(a) and obj.method(a, extra=...) for a method obj has
CallBackendMethod(method, kwargs) ==
    /\ IsBackend(obj)
    /\ method \in Methods(obj.t)
    /\ \E a \in FirstArgs :
          last' = Done("call", [method |-> method, a |-> a, kwargs |-> kwargs],
                       CallMethod(obj, method, a, kwargs))
    /\ UNCHANGED <<fs, obj, ctor>>

NewDTO ==
    /\ NoObjectYet
    /\ obj' = [t |-> "DTO"]
    /\ ctor' = None
    /\ last' = Done("DTO", None, [out |-> Return(None), calls |-> <<>>])
    /\ UNCHANGED fs

NewContainerImageDTO ==
    /\ NoObjectYet
    /\ \E values \in ImageMappings :
          /\ obj' = ContainerImageDTO_init(values)
          /\ ctor' = values
          /\ last' = Done("ContainerImageDTO", values,
                          [out |-> Return(None), calls |-> <<>>])
    /\ UNCHANGED fs

NewContainerDTO ==
    /\ NoObjectYet
    /\ \E values \in ContainerMappings :
          /\ obj' = ContainerDTO_init(values)
          /\ ctor' = values
          /\ last' = Done("ContainerDTO", values,
                          [out |-> Return(None), calls |-> <<>>])
    /\ UNCHANGED fs

NewCreatableContainerDTO ==
    /\ NoObjectYet
    /\ \E values \in CreatableMappings :
          /\ obj' = CreatableContainerDTO_init(values)
          /\ ctor' = values
          /\ last' = Done("CreatableContainerDTO", values,
                          [out |-> Return(None), calls |-> <<>>])
    /\ UNCHANGED fs

is_valid ==
    /\ obj.t \in DTOClasses
    /\ last' = Done("is_valid", None, DTO_is_valid(obj))
    /\ obj' = DTO_self_after(obj)
    /\ UNCHANGED <<fs, ctor>>

validate ==
    /\ obj.t \in DTOClasses
    /\ last' = Done("validate", None, DTO_validate(obj))
    /\ obj' = DTO_self_after(obj)
    /\ UNCHANGED <<fs, ctor>>

get_full_identifier ==
    /\ obj.t = "ContainerImageDTO"
    /\ last' = Done("get_full_identifier", None,
                    [out |-> ContainerImageDTO_get_full_identifier(obj),
                     calls |-> <<>>])
    /\ obj' = DTO_self_after(obj)
    /\ UNCHANGED <<fs, ctor>>

\* the tuples of classes an except clause names: each class alone, and the
\* roots of the taxonomy together
Handlers ==
    {{c} : c \in Classes}
    \cup {{"BackendError", "ServiceError"},
          {"BackendError", "ServiceError", "services.ServiceError"}}

\* try: raise exc(...)  except handler: pass
\* obj is the exception instance; the call returns when the clause catches
\* it and raises it when not.
TryExcept ==
    /\ NoObjectYet
    /\ \E exc \in PackageErrors, handler \in Handlers :
          /\ obj' = [t |-> exc]
          /\ last' = Done("try_except", [exc |-> exc, handler |-> handler],
                          [out |-> IF Catches(handler, exc)
                                   THEN Return(None) ELSE Raise(exc),
                           calls |-> <<>>])
    /\ ctor' = None
    /\ UNCHANGED fs

Next ==
    \/ NewStorageBackend
    \/ NewContainerBackend
    \/ \E container \in Containers : restart_container(container)
    \/ \E container \in Containers : stop_container(container)
    \/ \E container \in Containers : start_container(container)
    \/ NewUserBackend
    \/ \E user \in Users : get_user(user)
    \/ \E user \in Users : user_exists(user)
    \/ NewGroupBackend
    \/ \E method \in AllMethods, kwargs \in BOOLEAN :
          CallBackendMethod(method, kwargs)
    \/ NewDTO
    \/ NewContainerImageDTO
    \/ NewContainerDTO
    \/ NewCreatableContainerDTO
    \/ is_valid
    \/ validate
    \/ get_full_identifier
    \/ TryExcept

Spec == Init /\ [][Next]_vars

----------------------------------------------------------------------------
(* The claims.                                                             *)

\* a key is present in the input dict when get gives a value other than None
Present(values, key) == IsNotNone(Get(values, key))

\* C1: constructing a StorageBackend with a base_dir that does not exist
\* raises DirectoryNotFoundError and leaves the object without a base_dir,
\* for every path that does not exist.
C1_MissingBaseDirRaises ==
    (last.op = "StorageBackend" /\ ~PathExists(fs, last.arg))
        => /\ last.out.kind = "raise"
           /\ last.out.exc = "DirectoryNotFoundError"
           /\ obj.base_dir = Unset

C1_Witness ==
    /\ last.op = "StorageBackend"
    /\ last.arg \notin fs
    /\ fs # {}
    /\ last.out.kind = "raise"

\* C2: constructing a StorageBackend with a base_dir that exists returns
\* without raising, and the object's base_dir is the path passed in.
C2_ExistingBaseDirRecorded ==
    (last.op = "StorageBackend" /\ PathExists(fs, last.arg))
        => /\ last.out.kind = "return"
           /\ obj.base_dir = last.arg

C2_Witness ==
    /\ last.op = "StorageBackend"
    /\ last.arg \in fs
    /\ fs # {last.arg}
    /\ obj.base_dir = last.arg

\* C3: on a backend whose stop_container and start_container both succeed,
\* the default restart_container calls stop_container once and then
\* start_container once, both on the container it was given, and returns.
C3_RestartIsStopThenStart ==
    (last.op = "restart_container" /\ obj.stop = "ok" /\ obj.start = "ok")
        => /\ last.calls = <<Call("stop_container", last.arg),
                             Call("start_container", last.arg)>>
           /\ last.out.kind = "return"

C3_Witness ==
    /\ last.op = "restart_container"
    /\ obj.stop = "ok"
    /\ obj.start = "ok"
    /\ Len(last.calls) = 2
    /\ last.out.kind = "return"

\* C4: ContainerImageDTO(values).validate() raises MissingFieldError if and
\* only if name or tag is absent from values, and returns when both are
\* present.
C4_ValidateRaisesIffAbsent ==
    (obj.t = "ContainerImageDTO" /\ last.op = "validate")
        => /\ last.out.kind = "raise"
                <=> (~Present(ctor, "name") \/ ~Present(ctor, "tag"))
           /\ last.out.kind = "raise" => last.out.exc = "MissingFieldError"

\* C5: for every ContainerImageDTO, is_valid() returns True exactly when
\* validate() does not raise: a validate() that follows an is_valid() on the
\* same object returns if and only if that is_valid() returned True.
C5_IsValidAgreesWithValidate ==
    [][(obj.t = "ContainerImageDTO" /\ last.op = "is_valid"
        /\ last'.op = "validate")
          => (last.out.val.b <=> last'.out.kind = "return")]_vars

\* C6: CreatableContainerDTO(values).is_valid() returns True if and only if
\* command, name and image are present and image is a ContainerImageDTO whose
\* is_valid() is True; env, ports and volumes have no part in the result.
C6_CreatableIsValidIff ==
    (obj.t = "CreatableContainerDTO" /\ last.op = "is_valid")
        => /\ last.out.kind = "return"
           /\ last.out.val.b
                <=> /\ Present(ctor, "command")
                    /\ Present(ctor, "name")
                    /\ Present(ctor, "image")
                    /\ IsContainerImageDTO(ctor.image)
                    /\ IsNotNone(ctor.image.name)
                    /\ IsNotNone(ctor.image.tag)

C6_Witness ==
    /\ obj.t = "CreatableContainerDTO"
    /\ last.op = "is_valid"
    /\ last.out.val.b
    /\ ~Present(ctor, "env")
    /\ ~Present(ctor, "ports")
    /\ Present(ctor, "volumes")

\* C7, as the specification has it: user_exists(u) returns False when
\* get_user(u) raises UserNotFoundError and True otherwise, and never raises.
C7_UserExistsFollowsGetUser ==
    last.op = "user_exists"
        => /\ last.out.kind = "return"
           /\ last.out.val.b
                <=> UserBackend_get_user(obj, last.arg).exc
                        # "UserNotFoundError"

\* C7, amended: user_exists is a stub. For every user, and whatever get_user
\* does for that user, it raises NotImplementedError without calling get_user
\* and returns nothing.
C7_UserExistsIsStub ==
    last.op = "user_exists"
        => /\ last.out.kind = "raise"
           /\ last.out.exc = "NotImplementedError"
           /\ last.calls = <<>>

C7_Witness ==
    /\ last.op = "user_exists"
    /\ obj.get_user = "lookup"
    /\ last.arg \notin obj.users
    /\ obj.users # {}
    /\ last.out.kind = "raise"

\* C8: an instance of ContainerNotFoundError is an instance of NotFoundError,
\* of ContainerBackendError and of BackendError: an except clause naming any
\* of the three catches it.
C8_ContainerNotFoundIsBoth ==
    (/\ last.op = "try_except"
     /\ last.arg.exc = "ContainerNotFoundError"
     /\ last.arg.handler \in {{"NotFoundError"}, {"ContainerBackendError"},
                              {"BackendError"}})
        => last.out.kind = "return"

C8_Witness ==
    /\ last.op = "try_except"
    /\ last.arg.exc = "ContainerNotFoundError"
    /\ last.arg.handler = {"ContainerBackendError"}
    /\ last.out.kind = "return"

\* the resource-specific not-found errors and each one's resource kind
ResourceNotFoundErrors ==
    {"ContainerNotFoundError", "ContainerImageNotFoundError",
     "ContainerSnapshotNotFoundError", "GroupNotFoundError",
     "DirectoryNotFoundError", "UserNotFoundError"}

KindError(c) ==
    CASE c \in {"ContainerNotFoundError", "ContainerImageNotFoundError",
                "ContainerSnapshotNotFoundError"} -> "ContainerBackendError"
      [] c = "GroupNotFoundError" -> "GroupBackendError"
      [] c = "DirectoryNotFoundError" -> "StorageBackendError"
      [] c = "UserNotFoundError" -> "UserBackendError"

\* C9: every resource-specific not-found error is an instance of
\* NotFoundError and of its resource kind's backend error: an except clause
\* naming either catches it.
C9_NotFoundErrorsAreBoth ==
    (/\ last.op = "try_except"
     /\ last.arg.exc \in ResourceNotFoundErrors
     /\ last.arg.handler \in {{"NotFoundError"},
                              {KindError(last.arg.exc)}})
        => last.out.kind = "return"

\* the roots of the taxonomy, ServiceError taken from either module
Roots == {"BackendError", "ServiceError", "services.ServiceError"}

\* C10, as the specification has it: every error class of the package, the
\* DTO errors included, gives instances of BackendError or of ServiceError.
C10_AllErrorsUnderRoots ==
    (last.op = "try_except" /\ last.arg.handler = Roots)
        => last.out.kind = "return"

\* C10, amended: every error class of errors.py gives instances of
\* BackendError or of ServiceError, and every error class of services.py
\* instances of that module's ServiceError; ValidationError and
\* MissingFieldError are instances of neither root, they are instances of
\* ValidationError, which derives from Exception.
C10_ErrorsUnderRootsDtoErrorsNot ==
    last.op = "try_except"
        => /\ (/\ last.arg.exc \in ErrorsClasses
               /\ last.arg.handler = {"BackendError", "ServiceError"})
                 => last.out.kind = "return"
           /\ (/\ last.arg.exc \in ServicesClasses
               /\ last.arg.handler = {"services.ServiceError"})
                 => last.out.kind = "return"
           /\ (last.arg.exc \in DtosClasses /\ last.arg.handler = Roots)
                 => last.out.kind = "raise"
           /\ (/\ last.arg.exc \in DtosClasses
               /\ last.arg.handler \in {{"ValidationError"}, {"Exception"}})
                 => last.out.kind = "return"

C10_Witness ==
    /\ last.op = "try_except"
    /\ last.arg.exc = "MissingFieldError"
    /\ last.arg.handler = Roots
    /\ last.out.kind = "raise"

\* the DTO classes that have fields
FieldDTOs == {"ContainerImageDTO", "ContainerDTO", "CreatableContainerDTO"}

\* the object a DTO class's constructor makes of the dict values
Constructed(t, values) ==
    CASE t = "ContainerImageDTO" -> ContainerImageDTO_init(values)
      [] t = "ContainerDTO" -> ContainerDTO_init(values)
      [] t = "CreatableContainerDTO" -> CreatableContainerDTO_init(values)

\* C11: the validity checks are idempotent and free of side effects: a call
\* of is_valid() or validate() on a ContainerDTO, ContainerImageDTO or
\* CreatableContainerDTO leaves the object (the nested image included) as it
\* was, gives what the same call gave just before, and gives what it gives on
\* the object as constructed, whatever calls came in between.
C11_ChecksIdempotentNoSideEffect ==
    [][(obj.t \in FieldDTOs /\ last'.op \in {"is_valid", "validate"})
          => /\ obj' = obj
             /\ last.op = last'.op => last'.out = last.out
             /\ last'.out =
                  IF last'.op = "is_valid"
                  THEN DTO_is_valid(Constructed(obj.t, ctor)).out
                  ELSE DTO_validate(Constructed(obj.t, ctor)).out]_vars

C11_Witness ==
    /\ obj.t = "CreatableContainerDTO"
    /\ last.op = "validate"
    /\ IsContainerImageDTO(obj.image)
    /\ obj.image.name = PyStr("")
    /\ obj.name = PyStr("")
    /\ last.out.kind = "raise"

\* C12: for every CreatableContainerDTO, validate() raises (MissingFieldError
\* or ValidationError) if and only if is_valid() returns False: a validate()
\* that follows an is_valid() on the same object raises exactly when that
\* is_valid() returned False, so a DTO without command is rejected by both.
C12_CreatableValidateIffNotValid ==
    [][(obj.t = "CreatableContainerDTO" /\ last.op = "is_valid"
        /\ last'.op = "validate")
          => /\ last'.out.kind = "raise" <=> ~last.out.val.b
             /\ last'.out.kind = "raise"
                  => last'.out.exc \in {"MissingFieldError",
                                        "ValidationError"}]_vars

\* C13: for every ContainerDTO, validate() raises MissingFieldError if and
\* only if is_valid() returns False, whatever id is (absent, falsy, ordinary):
\* a validate() that follows an is_valid() on the same object raises exactly
\* when that is_valid() returned False.
C13_ContainerValidateIffNotValid ==
    [][(obj.t = "ContainerDTO" /\ last.op = "is_valid"
        /\ last'.op = "validate")
          => /\ last'.out.kind = "raise" <=> ~last.out.val.b
             /\ last'.out.kind = "raise"
                  => last'.out.exc = "MissingFieldError"]_vars

\* the object is an instance of the package's class itself: every method it
\* has is the one backends.py declares
Unmodified(self) ==
    /\ self.t \in ContainerBackendClasses
          => self.stop = "NotImplementedError"
             /\ self.start = "NotImplementedError"
    /\ self.t = "UserBackend" => self.get_user = "NotImplementedError"

\* C14 (as stated): calling any declared operation of a backend with its
\* documented arguments plus an extra keyword argument is never rejected
\* with TypeError.  container_image_exists, get_status, start_container and
\* user_exists are declared without **kwargs, so this does not hold.
C14_ExtraKeywordAccepted ==
    (last.op = "call" /\ last.arg.kwargs /\ Unmodified(obj))
        => ~(last.out.kind = "raise" /\ last.out.exc = "TypeError")

\* the inherited restart_container is in use and stop_container raises
StopRaises == obj.t \in ContainerBackendClasses /\ obj.stop # "ok"

\* C15: when stop_container raises, the default restart_container calls
\* stop_container only, never start_container, and raises the error stop
\* raised; on the base class that error is NotImplementedError.
C15_StopFailureSkipsStart ==
    (last.op = "restart_container" /\ StopRaises)
        => /\ last.calls = <<Call("stop_container", last.arg)>>
           /\ last.out = Raise(obj.stop)
           /\ (obj.stop = "NotImplementedError"
                  => last.out.exc = "NotImplementedError")

C15_Witness ==
    /\ last.op = "restart_container"
    /\ obj.t = "ContainerBackend"
    /\ obj.stop = "NotImplementedError"
    /\ obj.start = "NotImplementedError"
    /\ last.calls = <<Call("stop_container", last.arg)>>
    /\ last.out = Raise("NotImplementedError")

\* C17 (as stated): on an instance of ContainerBackend or of its
\* Snapshotable/Suspendable extension itself, a call of any operation other
\* than restart_container, with any arguments, raises NotImplementedError,
\* returns nothing and leaves the backend object as it was.  With an extra
\* keyword argument container_image_exists, get_status and start_container
\* raise TypeError instead (see C14), so this does not hold.
C17_ContainerOperationsAreStubs ==
    [][(/\ obj.t \in ContainerBackendClasses
        /\ Unmodified(obj)
        /\ last'.op = "call"
        /\ last'.arg.method # "restart_container")
          => /\ last'.out = Raise("NotImplementedError")
             /\ last'.calls = <<>>
             /\ obj' = obj]_vars

\* C16 (as stated): CreatableContainerDTO.validate() classifies failures in
\* this order: an absent image raises MissingFieldError; otherwise an image
\* that is not a ContainerImageDTO raises ValidationError and not
\* MissingFieldError; otherwise a failure of the image's validate() is the
\* outcome; otherwise an absent name raises MissingFieldError; and every
\* error raised is a ValidationError.  An image that is present but empty
\* ('' or 0) is not a ContainerImageDTO, yet `not self.image` reports it as
\* MissingFieldError, so this does not hold.
C16_ValidateFailureOrder ==
    (obj.t = "CreatableContainerDTO" /\ last.op = "validate")
        => /\ IF ~IsNotNone(obj.image)
              THEN last.out.kind = "raise"
                   /\ last.out.exc = "MissingFieldError"
              ELSE IF ~IsContainerImageDTO(obj.image)
              THEN last.out.kind = "raise"
                   /\ IsSubclass(last.out.exc, "ValidationError")
                   /\ ~IsSubclass(last.out.exc, "MissingFieldError")
              ELSE IF ContainerImageDTO_validate(obj.image).kind = "raise"
              THEN last.out = ContainerImageDTO_validate(obj.image)
              ELSE ~IsNotNone(obj.name)
                      => last.out.kind = "raise"
                         /\ last.out.exc = "MissingFieldError"
           /\ last.out.kind = "raise"
                 => IsSubclass(last.out.exc, "ValidationError")

\* the fields each DTO declares
Fields(t) ==
    CASE t = "ContainerImageDTO" -> {"name", "tag"}
      [] t = "ContainerDTO" -> {"id"}
      [] t = "CreatableContainerDTO" ->
            {"command", "env", "image", "name", "ports", "volumes"}

\* C18: a ContainerImageDTO, ContainerDTO or CreatableContainerDTO has, from
\* its construction on and after any of its operations, exactly its declared
\* fields, each equal to the input mapping's value for that key, or None
\* when the mapping lacks the key; keys it does not declare leave no trace;
\* the construction returned.
C18_FieldsFixedAtConstruction ==
    obj.t \in FieldDTOs
        => /\ DOMAIN obj = Fields(obj.t) \cup {"t"}
           /\ \A k \in Fields(obj.t) :
                 obj[k] = IF ctor[k].t = "<missing>" THEN None ELSE ctor[k]
           /\ last.op = obj.t => last.out = Return(None)

C18_Witness ==
    /\ obj.t = "CreatableContainerDTO"
    /\ last.op = "validate"
    /\ ctor.env.t = "<missing>"
    /\ ctor.id.t # "<missing>"
    /\ obj.env = None
    /\ IsContainerImageDTO(obj.image)
    /\ obj.image = ctor.image
    /\ obj.name = PyStr(StrName(1))

\* the classes called EncryptionServiceError, IntegrityServiceError or
\* IntegrityValidationError, in errors.py and in services.py
ServiceErrorClasses ==
    {"EncryptionServiceError", "IntegrityServiceError",
     "IntegrityValidationError", "services.EncryptionServiceError",
     "services.IntegrityServiceError", "services.IntegrityValidationError"}

\* C19 (as stated): every class named EncryptionServiceError,
\* IntegrityServiceError or IntegrityValidationError, of errors.py and of
\* services.py, is a subclass of errors.py's ServiceError, and
\* `except ServiceError` with that class catches each of them.  services.py
\* derives its three classes from a ServiceError of its own, so this does
\* not hold.
C19_SingleServiceErrorRoot ==
    (/\ last.op = "try_except"
     /\ last.arg.exc \in ServiceErrorClasses
     /\ last.arg.handler = {"ServiceError"})
        => /\ IsSubclass(last.arg.exc, "ServiceError")
           /\ last.out = Return(None)

====
